---- MODULE Spec2Model ----
(***************************************************************************)
(* A model of scaffold.js: the `apply` subcommand (askInteractive / flags, *)
(* createScaffold, autoInstall) and the `destroy` subcommand (destroy,     *)
(* rmrf), run as operating-system processes over one shared filesystem.    *)
(*                                                                         *)
(* A path is a sequence of components, <<>> being the working directory    *)
(* process.cwd(); the filesystem is a function from the paths that exist   *)
(* to their entries (a directory, a regular file with its content, or a    *)
(* symbolic link with its target).  File content is a sequence of text     *)
(* chunks; a placeholder {{id}} is the three chunks "{{", id, "}}".        *)
(* A string the code inspects character by character (the project name)    *)
(* is a sequence of one-character strings.                                 *)
(***************************************************************************)
EXTENDS Integers, Sequences, FiniteSets, TLC

VARIABLES
    fs,         \* the filesystem: [existing paths -> entry]
    pc,         \* pc[p]: where process p is in its command
    cmd,        \* cmd[p]: the command line of p and the answers derived from it
    step,       \* step[p]: index of the next statement of createScaffold's body
    stack,      \* stack[p]: the call stack of rmrf (frames [p, todo])
    exit,       \* exit[p]: exit status once p has ended, NoExit before
    err,        \* err[p]: why p ended ("none", "collision", "missingArg", "fsError")
    trace,      \* trace[p]: what p has done so far, in order (syscalls, console, install)
    fs0,        \* fs0[p]: the filesystem when p's command started
    prev,       \* the command that ended last, with its outcome
    started,    \* number of commands started so far
    faults,     \* number of injected filesystem errors so far
    limits,     \* what this behaviour explores: [race, maxCmds, maxFaults, inputs]
    sched,      \* [turn, switches]: the process that ran last, preemptions so far
    arg,        \* the argument of a helper called on its own (slugify, render)
    res         \* what that call returned: [done, val]

vars == <<fs, pc, cmd, step, stack, exit, err, trace, fs0, prev, started, faults, limits,
          sched, arg, res>>

----------------------------------------------------------------------------
(* Bounds of the model *)

\* processes that may run a command
NumProcs == 2
\* commands started in one behaviour
MaxCmds == 2
\* filesystem errors injected in one behaviour of SpecFault
MaxFaults == 1
\* symbolic links followed while resolving one path (ELOOP beyond)
MaxLinks == 2
\* times the operating system takes the processor from a running process to
\* give it to the other one, in a behaviour with two processes at once
MaxSwitches == 1
\* length of the strings slugify is called on by itself
MaxNameLen == 3
\* number of pieces (literal text, placeholders) of the templates given to render
MaxTplLen == 3

Procs == 1..NumProcs

NoExit == -1
NoDir == <<"<none>">>

----------------------------------------------------------------------------
(* Characters and slugify *)

UpperChars == <<"A","B","C","D","E","F","G","H","I","J","K","L","M",
                "N","O","P","Q","R","S","T","U","V","W","X","Y","Z">>
LowerChars == <<"a","b","c","d","e","f","g","h","i","j","k","l","m",
                "n","o","p","q","r","s","t","u","v","w","x","y","z">>
Digits == {"0","1","2","3","4","5","6","7","8","9"}

\* String.prototype.toLowerCase on one character
ToLowerChar(c) ==
    IF \E i \in 1..26 : UpperChars[i] = c
    THEN LowerChars[CHOOSE i \in 1..26 : UpperChars[i] = c]
    ELSE c

ToLowerCase(s) == [i \in 1..Len(s) |-> ToLowerChar(s[i])]

\* the character class [a-z0-9]
IsSlugChar(c) == (\E i \in 1..26 : LowerChars[i] = c) \/ c \in Digits

\* .replace(/[^a-z0-9]+/g, '-'): every maximal run outside the class becomes one '-'
RECURSIVE CollapseRuns(_)
CollapseRuns(s) ==
    IF s = <<>> THEN <<>>
    ELSE IF IsSlugChar(Head(s)) THEN <<Head(s)>> \o CollapseRuns(Tail(s))
    ELSE IF Len(s) > 1 /\ ~IsSlugChar(s[2]) THEN CollapseRuns(Tail(s))
    ELSE <<"-">> \o CollapseRuns(Tail(s))

\* the second replace without its '-$' alternative
TrimHyphens_LeadingOnly(s) ==
    IF s # <<>> /\ Head(s) = "-" THEN Tail(s) ELSE s

\* .replace(/(^-|-$)/g, ''): one '-' at the start and one at the end are removed
TrimHyphens(s) ==
    LET a == IF s # <<>> /\ Head(s) = "-" THEN Tail(s) ELSE s
    IN  IF a # <<>> /\ a[Len(a)] = "-" THEN SubSeq(a, 1, Len(a) - 1) ELSE a

slugify(s) == TrimHyphens(CollapseRuns(ToLowerCase(s)))

\* the character class \w
IsWordChar(c) == IsSlugChar(c) \/ (\E i \in 1..26 : UpperChars[i] = c) \/ c = "_"

\* the length of the run of \w characters of s that starts at position i
RECURSIVE WordLen(_, _)
WordLen(s, i) ==
    IF i <= Len(s) /\ IsWordChar(s[i]) THEN 1 + WordLen(s, i + 1) ELSE 0

\* /\{\{(\w+)\}\}/ tried at position i of s: the length of the key, 0 if no match
MatchAt(s, i) ==
    IF i + 1 <= Len(s) /\ s[i] = "{" /\ s[i + 1] = "{"
    THEN LET n == WordLen(s, i + 2)
         IN  IF /\ n > 0
                /\ i + n + 3 <= Len(s)
                /\ s[i + n + 2] = "}"
                /\ s[i + n + 3] = "}"
             THEN n ELSE 0
    ELSE 0

\* JavaScript values, with the text String(v) gives for them
Undefined == [t |-> "undefined", s |-> <<"u","n","d","e","f","i","n","e","d">>]
Null == [t |-> "null", s |-> <<"n","u","l","l">>]
StringValue(chars) == [t |-> "string", s |-> chars]
FunctionValue(chars) == [t |-> "function", s |-> chars]

\* what an object literal inherits: Object.prototype.constructor, among others
ObjectPrototype ==
    [k \in { <<"c","o","n","s","t","r","u","c","t","o","r">> } |->
        FunctionValue(<<"f","u","n","c","t","i","o","n"," ","O","b","j","e","c","t","(",")"," ","{"," ","[","n","a","t","i","v","e"," ","c","o","d","e","]"," ","}">>)]

\* vars[k]: an own property, else an inherited one, else undefined
PropertyGet(vmap, k) ==
    IF k \in DOMAIN vmap THEN vmap[k]
    ELSE IF k \in DOMAIN ObjectPrototype THEN ObjectPrototype[k]
    ELSE Undefined

\* (_, k) => (vars[k] ?? ''), and the conversion of what it returns to a string
Replacement(vmap, k) ==
    LET v == PropertyGet(vmap, k)
    IN  IF v.t \in {"null", "undefined"} THEN <<>> ELSE v.s

\* tpl.replace(re, fn) from position i on; all is TRUE for a regular expression
\* with the g flag
RECURSIVE ReplaceFrom(_, _, _, _)
ReplaceFrom(tpl, vmap, i, all) ==
    IF i > Len(tpl) THEN <<>>
    ELSE LET n == MatchAt(tpl, i)
         IN  IF n = 0 THEN <<tpl[i]>> \o ReplaceFrom(tpl, vmap, i + 1, all)
             ELSE Replacement(vmap, SubSeq(tpl, i + 2, i + n + 1))
                  \o (IF all THEN ReplaceFrom(tpl, vmap, i + n + 4, all)
                             ELSE SubSeq(tpl, i + n + 4, Len(tpl)))

\* the replace without the g flag: only the first placeholder is replaced
render_FirstOnly(tpl, vmap) == ReplaceFrom(tpl, vmap, 1, FALSE)

\* render(tpl, vars), lines 29-31
render(tpl, vmap) == ReplaceFrom(tpl, vmap, 1, TRUE)

\* a sequence of characters as one string
RECURSIVE Str(_)
Str(s) == IF s = <<>> THEN "" ELSE Head(s) \o Str(Tail(s))

----------------------------------------------------------------------------
(* The filesystem *)

DirEntry == [kind |-> "dir", content |-> <<>>, target |-> <<>>]
FileEntry(c) == [kind |-> "file", content |-> c, target |-> <<>>]
LinkEntry(t) == [kind |-> "link", content |-> <<>>, target |-> t]

IsPrefix(a, b) == Len(a) <= Len(b) /\ SubSeq(b, 1, Len(a)) = a
Parent(p) == SubSeq(p, 1, Len(p) - 1)
Children(f, d) == {q \in DOMAIN f : Len(q) = Len(d) + 1 /\ IsPrefix(d, q)}

\* the components put one after the other, an empty one kept
PathJoin_KeepEmpty(base, rel) == base \o rel

\* path.join(base, rel): rel already split at '/', empty components dropped
PathJoin(base, rel) == base \o SelectSeq(rel, LAMBDA c : c # "")

\* Path resolution as the kernel does it: cur is the directory reached so far,
\* rest the components still to walk.  Links in the middle of a path are always
\* followed, the last component's link only when followLast.
RECURSIVE Walk(_, _, _, _, _)
Walk(f, cur, rest, followLast, fuel) ==
    IF rest = <<>> THEN [ok |-> TRUE, exists |-> TRUE, path |-> cur]
    ELSE LET nxt == Append(cur, Head(rest))
             tl  == Tail(rest)
         IN  IF f[cur].kind # "dir"
             THEN [ok |-> FALSE, exists |-> FALSE, path |-> cur]        \* ENOTDIR
             ELSE IF nxt \notin DOMAIN f
             THEN [ok |-> tl = <<>>, exists |-> FALSE, path |-> nxt]    \* ENOENT if tl # <<>>
             ELSE IF f[nxt].kind = "link" /\ (tl # <<>> \/ followLast)
             THEN IF fuel = 0
                  THEN [ok |-> FALSE, exists |-> FALSE, path |-> nxt]   \* ELOOP
                  ELSE Walk(f, <<>>, f[nxt].target \o tl, followLast, fuel - 1)
             ELSE Walk(f, nxt, tl, followLast, fuel)

Stat(f, p) == Walk(f, <<>>, p, TRUE, MaxLinks)
LStat(f, p) == Walk(f, <<>>, p, FALSE, MaxLinks)

\* fs.existsSync(p): true iff stat(p) succeeds
existsSync(f, p) == LET r == Stat(f, p) IN r.ok /\ r.exists

\* the test made with statSync, which follows a link to what it points at
lstatIsDirectory_Follow(f, p) ==
    LET r == Stat(f, p)
    IN  [ok |-> r.ok /\ r.exists,
         val |-> r.ok /\ r.exists /\ f[r.path].kind = "dir"]

\* fs.lstatSync(p).isDirectory(); ok = FALSE when lstat throws
lstatIsDirectory(f, p) ==
    LET r == LStat(f, p)
    IN  [ok |-> r.ok /\ r.exists,
         val |-> r.ok /\ r.exists /\ f[r.path].kind = "dir"]

Put(f, p, e) == [q \in DOMAIN f \cup {p} |-> IF q = p THEN e ELSE f[q]]
Del(f, p) == [q \in DOMAIN f \ {p} |-> f[q]]

\* fs.mkdirSync(p, {recursive: true}): every missing component is created, an
\* existing directory (or link to one) is accepted, anything else is an error.
\* made lists the directories created, in order.
RECURSIVE MkdirFrom(_, _, _, _)
MkdirFrom(f, p, i, made) ==
    IF i > Len(p) THEN [ok |-> TRUE, fs |-> f, made |-> made]
    ELSE LET l == LStat(f, SubSeq(p, 1, i))
             r == Stat(f, SubSeq(p, 1, i))
         IN  IF ~l.ok THEN [ok |-> FALSE, fs |-> f, made |-> made]
             ELSE IF ~l.exists
             THEN MkdirFrom(Put(f, l.path, DirEntry), p, i + 1, Append(made, l.path))
             ELSE IF r.ok /\ r.exists /\ f[r.path].kind = "dir"
             THEN MkdirFrom(f, p, i + 1, made)
             ELSE [ok |-> FALSE, fs |-> f, made |-> made]   \* EEXIST / ENOTDIR / ENOENT

mkdirSync(f, p) == MkdirFrom(f, p, 1, <<>>)

\* fs.writeFileSync(p, content, 'utf8'): creates or truncates the file
writeFileSync(f, p, content) ==
    LET r == Stat(f, p)
    IN  IF ~r.ok THEN [ok |-> FALSE, fs |-> f, path |-> p]
        ELSE IF r.exists /\ f[r.path].kind = "dir"
        THEN [ok |-> FALSE, fs |-> f, path |-> p]                \* EISDIR
        ELSE [ok |-> TRUE, fs |-> Put(f, r.path, FileEntry(content)), path |-> r.path]

\* fs.readdirSync(p): the names in the directory p (a link to one is followed)
readdirSync(f, p) ==
    LET r == Stat(f, p)
    IN  IF r.ok /\ r.exists /\ f[r.path].kind = "dir"
        THEN [ok |-> TRUE, names |-> {q[Len(q)] : q \in Children(f, r.path)}]
        ELSE [ok |-> FALSE, names |-> {}]                        \* ENOTDIR / ENOENT

\* fs.unlinkSync(p): removes a file or a link, never a directory
unlinkSync(f, p) ==
    LET r == LStat(f, p)
    IN  IF r.ok /\ r.exists /\ f[r.path].kind # "dir"
        THEN [ok |-> TRUE, fs |-> Del(f, r.path), path |-> r.path]
        ELSE [ok |-> FALSE, fs |-> f, path |-> p]

\* fs.rmdirSync(p): removes an empty directory
rmdirSync(f, p) ==
    LET r == LStat(f, p)
    IN  IF r.ok /\ r.exists /\ f[r.path].kind = "dir" /\ Children(f, r.path) = {}
        THEN [ok |-> TRUE, fs |-> Del(f, r.path), path |-> r.path]
        ELSE [ok |-> FALSE, fs |-> f, path |-> p]                \* ENOTDIR / ENOTEMPTY

----------------------------------------------------------------------------
(* The project tree: the statements of createScaffold's body, in order *)

\* JSON.stringify of a string: quotes around it, '"' and '\' escaped
RECURSIVE JsonEscape(_)
JsonEscape(s) ==
    IF s = <<>> THEN <<>>
    ELSE (IF Head(s) \in {"\"", "\\"} THEN <<"\\", Head(s)>> ELSE <<Head(s)>>)
         \o JsonEscape(Tail(s))

JsonQuote(s) == <<"\"">> \o JsonEscape(s) \o <<"\"">>

JsonString(s) == Str(JsonQuote(s))

\* the package named after the slug instead of the name as given
basePackageJson_Slug(name) ==
    << "{\n  \"name\": ", JsonString(slugify(name)),
       ",\n  \"version\": \"0.1.0\",\n  \"private\": true,\n  \"scripts\": {...},\n  \"dependencies\": {...},\n  \"devDependencies\": {...}\n}" >>

\* JSON.stringify(basePackageJson(name, opts), null, 2)
basePackageJson(name) ==
    << "{\n  \"name\": ", JsonString(name),
       ",\n  \"version\": \"0.1.0\",\n  \"private\": true,\n  \"scripts\": {...},\n  \"dependencies\": {...},\n  \"devDependencies\": {...}\n}" >>

\* a template placeholder as it stands in a file
Ph(id) == << "{{", id, "}}" >>

W(rel, content) == [op |-> "write", rel |-> rel, content |-> content]
M(rel) == [op |-> "mkdir", rel |-> rel, content |-> <<>>]

envFile(site, name) ==
    << "NEXT_PUBLIC_SITE_URL=", site, "\nNEXT_PUBLIC_SITE_NAME=", Str(name),
       "\nCLERK_PUBLISHABLE_KEY=\n...\nSUCCESS_URL=", site, "/dashboard\nCANCEL_URL=", site, "/\n" >>

dripSequence ==
    << "[{\"day\": 0, \"subject\": \"Welcome to " >> \o Ph("app_name")
    \o << "\", \"body\": \"Hey " >> \o Ph("first_name")
    \o << ",\\n\\nThanks for joining " >> \o Ph("app_name")
    \o << "...\"}, {\"day\": 2, \"subject\": \"How " >> \o Ph("app_name")
    \o << " helps you hit your goal faster\"}, {\"day\": 5, \"subject\": \"...\", \"body\": \"... " >>
    \o Ph("cta_link") \o << "\"}]" >>

outreachEmail ==
    << "Subject: " >> \o Ph("first_name") \o << ", quick question about " >>
    \o Ph("pain_point") \o << "\n\nHey " >> \o Ph("first_name")
    \o << ",\n\nNoticed you " >> \o Ph("context")
    \o << " - built something that helps " >> \o Ph("persona") \o << " solve " >>
    \o Ph("pain_point") \o << " faster.\n\n... built for " >> \o Ph("persona")
    \o << "s like you.\n\n" >> \o Ph("signature") \o << "\n" >>

outreachTwitterDm ==
    << "Hey " >> \o Ph("first_name") \o << " saw your post about " >> \o Ph("topic")
    \o << ".\nWe just launched " >> \o Ph("app_name") \o << " - helps " >>
    \o Ph("persona") \o << " save " >> \o Ph("benefit") \o << ".\nWant early access?" >>

launchText(head, tail) ==
    << head >> \o Ph("app_name") \o << tail >> \o Ph("app_url")

\* createScaffold, lines 88-954: one entry per write(...) or fs.mkdirSync(...)
Tree(name) == <<
    W(<<"package.json">>, basePackageJson(name)),
    W(<<"README.md">>, << "# ", Str(name), "\n\nScaffolded with CLI. ...\n" >>),
    W(<<"netlify.toml">>, << "[build] ... [plugins] ...\n" >>),
    W(<<".gitignore">>, << "node_modules\n.next\n.env*\n.netlify\n" >>),
    W(<<".env.staging">>, envFile("https://staging.example.com", name)),
    W(<<".env.production">>, envFile("https://yourdomain.com", name)),
    W(<<".env.local">>, << "# .env.local\n" >> \o envFile("http://localhost:3000", name)),
    W(<<"supabase", "init.sql">>, << "-- supabase/init.sql ...\n" >>),
    W(<<"lib", "supabaseClient.ts">>, << "// lib/supabaseClient.ts ...\n" >>),
    W(<<"lib", "safeClerk.tsx">>, << "import React from \"react\"; ...\n" >>),
    W(<<"pages", "api", "signups", "add.ts">>, << "// pages/api/signups/add.ts ...\n" >>),
    W(<<"next.config.js">>, << "module.exports = { reactStrictMode: true };\n" >>),
    W(<<"pages", "_app.tsx">>, << "// pages/_app.tsx ...\n" >>),
    W(<<"lib", "analytics.ts">>, << "// lib/analytics.ts ... ${GA_MEASUREMENT_ID} ...\n" >>),
    W(<<"lib", "ads.ts">>, << "// lib/ads.ts ... ${LINKEDIN_ID} ...\n" >>),
    W(<<"styles", "globals.css">>, << "/* Minimal global styles */ ...\n" >>),
    W(<<"pages", "index.tsx">>, << "// pages/index.tsx ... initial={{ opacity: 0, y: 30 }} ...\n" >>),
    W(<<"pages", "sign-in.tsx">>, << "... SignInPage ...\n" >>),
    W(<<"pages", "sign-up.tsx">>, << "... SignUpPage ...\n" >>),
    W(<<"pages", "dashboard.tsx">>, << "// pages/dashboard.tsx ...\n" >>),
    W(<<"pages", "api", "events", "track.ts">>, << "... events insert ...\n" >>),
    W(<<"pages", "api", "stripe", "create-checkout.ts">>, << "... checkout session ...\n" >>),
    W(<<"pages", "api", "stripe", "webhook.ts">>, << "... webhook ...\n" >>),
    W(<<"pages", "api", "health.ts">>, << "... res.json({ ok: true, now: Date.now() }); }\n" >>),
    W(<<"pages", "blog", "index.tsx">>, << "... Blog ...\n" >>),
    W(<<"public", "shared-hero.jpg">>, << >>),
    W(<<"pages", "founder.tsx">>, << "... Founder ...\n" >>),
    M(<<"netlify">>),
    W(<<".github", "workflows", "deploy.yml">>,
      << "name: Build and Deploy to Netlify ... ${{ secrets.NETLIFY_AUTH_TOKEN }} ...\n" >>),
    W(<<"README.md">>, << "# ", Str(name), "\n\n## Quickstart (local) ...\n" >>),
    W(<<"drip", "sequence.json">>, dripSequence),
    W(<<"outreach", "templates", "email.txt">>, outreachEmail),
    W(<<"outreach", "templates", "twitter-dm.txt">>, outreachTwitterDm),
    W(<<"components", "FeedbackModal.tsx">>, << "import { useState } from 'react'; ...}" >>),
    M(<<"marketing", "launch">>),
    W(<<"marketing", "launch", "twitter-thread.txt">>,
      launchText("Just launched ", " ... Try it: ") \o << "\n" >>),
    W(<<"marketing", "launch", "product-hunt.txt">>,
      launchText("We built ", " to help founders launch faster ... Join early access ") \o << "\n" >>),
    W(<<"marketing", "launch", "indiehackers.txt">>,
      launchText("Hey IH just shipped ", "! ... Would love feedback: "))
>>

TreeLen == Len(Tree(<<>>))

\* the Stripe routes left out when the answers say no billing
Statements_StripeOptional(opts) ==
    IF opts.stripe THEN Tree(opts.name)
    ELSE SelectSeq(Tree(opts.name),
                   LAMBDA op : ~(Len(op.rel) > 2 /\ op.rel[3] = "stripe"))

\* the statements createScaffold(dir, opts) runs: of opts only opts.name is read
Statements(opts) == Tree(opts.name)

----------------------------------------------------------------------------
(* Inputs *)

\* project names given with --name or typed at the prompt
Names == { <<"o","n","b","o","a","r","d","k","i","t">>,
           <<"M","y"," ","A","p","p","!">> }

\* values of --dir for apply (NoDir: the flag is omitted, or the prompt left blank)
ApplyDirs == { NoDir, <<"a", "b">>, <<"old">>, <<"notes.txt">>, <<"dangling">> }

\* values of --dir for destroy
DestroyDirs == { NoDir, <<"old">>, <<"onboardkit">>, <<"a">>, <<"notes.txt">>,
                 <<"old", "ln">> }

\* a project name whose JSON form needs escapes
QuotedName == <<"a", "\"", "b", "\\">>

\* a project name without any ASCII letter or digit
SymbolsName == <<"é", "!">>

\* the inputs a behaviour draws from: the usual ones; "config" adds a name with
\* quotes, one without letters or digits, and the other values of the options
\* and answers; "race" keeps to two command lines on the same paths
NamesIn(inputs) ==
    CASE inputs = "config" -> Names \cup {QuotedName, SymbolsName}
      [] inputs = "race" -> { <<"o","n","b","o","a","r","d","k","i","t">> }
      [] OTHER -> Names

ApplyDirsIn(inputs) ==
    CASE inputs = "config" -> { NoDir, <<"a", "b">>, <<"old">> }
      [] inputs = "race" -> { <<"a", "b">> }
      [] OTHER -> ApplyDirs

DestroyDirsIn(inputs) ==
    CASE inputs = "config" -> { NoDir, <<"old">> }
      [] inputs = "race" -> { <<"old">> }
      [] OTHER -> DestroyDirs

\* --repo, or the answer to 'Git repo URL (optional)'
Repos(inputs) == IF inputs = "config" THEN {"", "https://github.com/u/r"} ELSE {""}
\* --db and --deploy take any string; their defaults are 'supabase' and 'netlify'
Dbs(inputs) == IF inputs = "config" THEN {"supabase", "postgres"} ELSE {"supabase"}
Deploys(inputs) == IF inputs = "config" THEN {"netlify", "vercel"} ELSE {"netlify"}
\* the answer to 'Enable Stripe Billing?'
StripeAnswers(inputs) == IF inputs = "config" THEN BOOLEAN ELSE {TRUE}

\* what is on disk before the first command: a directory tree with nested
\* directories, files and a link out of it, a directory outside it, a file, and
\* a link whose target is missing
InitFs ==
    LET t == << <<<<"old">>, DirEntry>>,
                <<<<"old", "a.txt">>, FileEntry(<<"a">>)>>,
                <<<<"old", "sub">>, DirEntry>>,
                <<<<"old", "sub", "b.txt">>, FileEntry(<<"b">>)>>,
                <<<<"old", "sub", "deep">>, DirEntry>>,
                <<<<"old", "ln">>, LinkEntry(<<"ext">>)>>,
                <<<<"ext">>, DirEntry>>,
                <<<<"ext", "keep.txt">>, FileEntry(<<"keep">>)>>,
                <<<<"notes.txt">>, FileEntry(<<"notes">>)>>,
                <<<<"dangling">>, LinkEntry(<<"gone">>)>> >>
    IN  [q \in {<<>>} \cup {t[i][1] : i \in 1..Len(t)} |->
            IF q = <<>> THEN DirEntry
            ELSE t[CHOOSE i \in 1..Len(t) : t[i][1] = q][2]]

----------------------------------------------------------------------------
(* Processes *)

Ev(kind, path, msg) == [ev |-> kind, path |-> path, msg |-> msg]

NoPrev == [sub |-> "none", name |-> <<>>, dir |-> <<>>, exit |-> NoExit, err |-> "none"]

NoCmd == [sub |-> "none", name |-> <<>>, dir |-> <<>>, dirArg |-> NoDir,
          autoInstall |-> FALSE, repo |-> "", stripe |-> FALSE, auth |-> "",
          db |-> "", deploy |-> "", prior |-> NoPrev]

Frame(path) == [path |-> path, todo |-> <<>>, open |-> FALSE]

\* the order in which readdirSync lists a directory: one fixed, arbitrary order
RECURSIVE SetToSeq(_)
SetToSeq(S) ==
    IF S = {} THEN <<>>
    ELSE LET x == CHOOSE x \in S : TRUE IN <<x>> \o SetToSeq(S \ {x})

Running(p) == pc[p] \notin {"idle", "done"}

\* a command line is started: one at a time, or, where the behaviour explores a
\* race, the k-th command line as process k while the earlier ones still run
CanStart(p) ==
    /\ ~Running(p)
    /\ started < limits.maxCmds
    /\ IF limits.race THEN p = started + 1
                      ELSE p = 1 /\ \A q \in Procs : ~Running(q)

\* the operating system lets p take its next step: p ran last, or the process
\* that ran last has ended, or it is preempted
MayRun(p) ==
    (limits.race /\ sched.turn # p /\ Running(sched.turn)) =>
        sched.switches < MaxSwitches

Scheduled(p) ==
    IF ~limits.race THEN sched
    ELSE [turn |-> p,
          switches |-> IF sched.turn # p /\ Running(sched.turn)
                       THEN sched.switches + 1 ELSE sched.switches]

Begin(p, c, at) ==
    /\ MayRun(p)
    /\ sched' = Scheduled(p)
    /\ cmd' = [cmd EXCEPT ![p] = [c EXCEPT !.prior = prev]]
    /\ pc' = [pc EXCEPT ![p] = at]
    /\ step' = [step EXCEPT ![p] = 1]
    /\ stack' = [stack EXCEPT ![p] = <<>>]
    /\ exit' = [exit EXCEPT ![p] = NoExit]
    /\ err' = [err EXCEPT ![p] = "none"]
    /\ trace' = [trace EXCEPT ![p] = <<>>]
    /\ fs0' = [fs0 EXCEPT ![p] = fs]
    /\ started' = started + 1
    /\ UNCHANGED <<fs, prev, faults, limits, arg, res>>

\* an injected filesystem error (EACCES, ENOSPC, EIO): which call of the step fails
FaultChoices(calls) == IF faults < limits.maxFaults THEN {"none"} \cup calls ELSE {"none"}

\* the process ends with status code, after doing evs on the filesystem f
Finish(p, code, why, f, evs, inject) ==
    /\ MayRun(p)
    /\ sched' = Scheduled(p)
    /\ fs' = f
    /\ pc' = [pc EXCEPT ![p] = "done"]
    /\ exit' = [exit EXCEPT ![p] = code]
    /\ err' = [err EXCEPT ![p] = why]
    /\ trace' = [trace EXCEPT ![p] = trace[p] \o evs]
    /\ prev' = [sub |-> cmd[p].sub, name |-> cmd[p].name, dir |-> cmd[p].dir,
                exit |-> code, err |-> why]
    /\ faults' = IF inject = "none" THEN faults ELSE faults + 1
    /\ UNCHANGED <<cmd, step, stack, fs0, started, limits, arg, res>>

\* the process goes on at `at`, after doing evs on the filesystem f
Goto(p, at, f, evs, st, sk) ==
    /\ MayRun(p)
    /\ sched' = Scheduled(p)
    /\ fs' = f
    /\ pc' = [pc EXCEPT ![p] = at]
    /\ trace' = [trace EXCEPT ![p] = trace[p] \o evs]
    /\ step' = [step EXCEPT ![p] = st]
    /\ stack' = [stack EXCEPT ![p] = sk]
    /\ UNCHANGED <<cmd, exit, err, fs0, prev, started, faults, limits, arg, res>>

\* an uncaught exception: the process dies with status 1
Throw(p, f, evs, inject) == Finish(p, 1, "fsError", f, evs, inject)

MkdirEvents(made) == [i \in 1..Len(made) |-> Ev("mkdir", made[i], "")]

\* the target directory: opts.dir || path.join(process.cwd(), slugify(opts.name))
TargetDir(name, dirArg) ==
    IF dirArg # NoDir THEN dirArg ELSE PathJoin(<<>>, <<Str(slugify(name))>>)

Answers(name, dirArg, install, repo, stripe, db, deploy) ==
    [NoCmd EXCEPT !.sub = "apply", !.name = name, !.dirArg = dirArg,
                  !.dir = TargetDir(name, dirArg), !.repo = repo, !.stripe = stripe,
                  !.auth = "clerk", !.db = db, !.deploy = deploy,
                  !.autoInstall = install]

\* apply with --name: lines 998-1001
ApplyFlags(p) ==
    \E name \in NamesIn(limits.inputs), dirArg \in ApplyDirsIn(limits.inputs),
       noInstall \in BOOLEAN, repo \in Repos(limits.inputs),
       db \in Dbs(limits.inputs), deploy \in Deploys(limits.inputs) :
        /\ CanStart(p)
        /\ name # <<>>
        /\ Begin(p, Answers(name, dirArg, ~noInstall, repo, TRUE, db, deploy), "a_check")

\* apply without --name: askInteractive, lines 33-46 and 996-997
askInteractive(p) ==
    \E name \in NamesIn(limits.inputs), dirAnswer \in ApplyDirsIn(limits.inputs),
       install \in BOOLEAN, repo \in Repos(limits.inputs),
       stripe \in StripeAnswers(limits.inputs) :
        /\ CanStart(p)
        /\ Begin(p, Answers(name, dirAnswer, install, repo, stripe, "supabase", "netlify"),
                 "a_check")

\* createScaffold without its guard: the directory is not looked at
ApplyCheck_NoGuard(p) ==
    /\ pc[p] = "a_check"
    /\ Goto(p, "a_mkdir", fs, <<>>, step[p], stack[p])

\* createScaffold whose guard reports the collision and goes on (no process.exit)
ApplyCheck_NoExit(p) ==
    /\ pc[p] = "a_check"
    /\ Goto(p, "a_mkdir", fs,
            IF existsSync(fs, cmd[p].dir)
            THEN <<Ev("error", cmd[p].dir, "Directory already exists:")>> ELSE <<>>,
            step[p], stack[p])

\* createScaffold, lines 81-84: the collision guard
ApplyCheck(p) ==
    /\ pc[p] = "a_check"
    /\ IF existsSync(fs, cmd[p].dir)
       THEN Finish(p, 1, "collision", fs,
                   <<Ev("error", cmd[p].dir, "Directory already exists:")>>, "none")
       ELSE Goto(p, "a_mkdir", fs, <<>>, step[p], stack[p])

\* the directory made by a call that fails with EEXIST if it is there
ApplyMkdir_Exclusive(p) ==
    /\ pc[p] = "a_mkdir"
    /\ \E inject \in FaultChoices({"mkdir"}) :
        LET r == mkdirSync(fs, cmd[p].dir)
        IN  IF inject = "mkdir" THEN Throw(p, fs, <<>>, inject)
            ELSE IF ~r.ok \/ r.made = <<>> THEN Throw(p, r.fs, MkdirEvents(r.made), inject)
            ELSE Goto(p, "a_tree", r.fs, MkdirEvents(r.made), 1, stack[p])

\* createScaffold, line 85: fs.mkdirSync(dir, { recursive: true })
ApplyMkdir(p) ==
    /\ pc[p] = "a_mkdir"
    /\ \E inject \in FaultChoices({"mkdir"}) :
        LET r == mkdirSync(fs, cmd[p].dir)
        IN  IF inject = "mkdir" THEN Throw(p, fs, <<>>, inject)
            ELSE IF ~r.ok THEN Throw(p, r.fs, MkdirEvents(r.made), inject)
            ELSE Goto(p, "a_tree", r.fs, MkdirEvents(r.made), 1, stack[p])

\* write that makes the parent directories and forgets the file
RunOp_NoFile(f, dir, op, inject) ==
    LET path == PathJoin(dir, op.rel)
        m == mkdirSync(f, IF op.op = "write" THEN Parent(path) ELSE path)
    IN  [ok |-> m.ok, fs |-> m.fs, evs |-> MkdirEvents(m.made)]

\* write(filePath, content), lines 25-28, or a bare fs.mkdirSync of the body
RunOp(f, dir, op, inject) ==
    LET path == PathJoin(dir, op.rel)
        m == mkdirSync(f, IF op.op = "write" THEN Parent(path) ELSE path)
        w == writeFileSync(m.fs, path, op.content)
    IN  IF inject = "mkdir" THEN [ok |-> FALSE, fs |-> f, evs |-> <<>>]
        ELSE IF ~m.ok \/ op.op = "mkdir"
        THEN [ok |-> m.ok, fs |-> m.fs, evs |-> MkdirEvents(m.made)]
        ELSE IF inject = "write" \/ ~w.ok
        THEN [ok |-> FALSE, fs |-> m.fs, evs |-> MkdirEvents(m.made)]
        ELSE [ok |-> TRUE, fs |-> w.fs,
              evs |-> Append(MkdirEvents(m.made), Ev("writeFile", w.path, ""))]

\* createScaffold returning one statement early: the last write is never made
ApplyTree_EarlyReturn(p) ==
    /\ pc[p] = "a_tree"
    /\ \E inject \in FaultChoices({"mkdir", "write"}) :
        LET tree == Statements(cmd[p])
            op == tree[step[p]]
            r == RunOp(fs, cmd[p].dir, op, inject)
        IN  /\ inject = "write" => op.op = "write"
            /\ IF ~r.ok THEN Throw(p, r.fs, r.evs, inject)
               ELSE IF step[p] < Len(tree) - 1
               THEN Goto(p, "a_tree", r.fs, r.evs, step[p] + 1, stack[p])
               ELSE Goto(p, IF cmd[p].autoInstall THEN "a_install" ELSE "a_summary",
                         r.fs, Append(r.evs, Ev("log", cmd[p].dir, "Scaffold files created at")),
                         step[p] + 1, stack[p])

\* createScaffold's body run against the working directory instead of dir
ApplyTree_WrongBase(p) ==
    /\ pc[p] = "a_tree"
    /\ \E inject \in FaultChoices({"mkdir", "write"}) :
        LET tree == Statements(cmd[p])
            op == tree[step[p]]
            r == RunOp(fs, <<>>, op, inject)
        IN  /\ inject = "write" => op.op = "write"
            /\ IF ~r.ok THEN Throw(p, r.fs, r.evs, inject)
               ELSE IF step[p] < Len(tree)
               THEN Goto(p, "a_tree", r.fs, r.evs, step[p] + 1, stack[p])
               ELSE Goto(p, IF cmd[p].autoInstall THEN "a_install" ELSE "a_summary",
                         r.fs, Append(r.evs, Ev("log", cmd[p].dir, "Scaffold files created at")),
                         step[p] + 1, stack[p])

\* the apply action calling autoInstall whatever answers.autoInstall is
ApplyTree_AlwaysInstall(p) ==
    /\ pc[p] = "a_tree"
    /\ \E inject \in FaultChoices({"mkdir", "write"}) :
        LET tree == Statements(cmd[p])
            op == tree[step[p]]
            r == RunOp(fs, cmd[p].dir, op, inject)
        IN  /\ inject = "write" => op.op = "write"
            /\ IF ~r.ok THEN Throw(p, r.fs, r.evs, inject)
               ELSE IF step[p] < Len(tree)
               THEN Goto(p, "a_tree", r.fs, r.evs, step[p] + 1, stack[p])
               ELSE Goto(p, "a_install",
                         r.fs, Append(r.evs, Ev("log", cmd[p].dir, "Scaffold files created at")),
                         step[p] + 1, stack[p])

\* createScaffold with each statement in a try block that drops the error
ApplyTree_SwallowError(p) ==
    /\ pc[p] = "a_tree"
    /\ \E inject \in FaultChoices({"mkdir", "write"}) :
        LET tree == Statements(cmd[p])
            op == tree[step[p]]
            r == RunOp(fs, cmd[p].dir, op, inject)
        IN  /\ inject = "write" => op.op = "write"
            /\ IF step[p] < Len(tree)
               THEN Goto(p, "a_tree", r.fs, r.evs, step[p] + 1, stack[p])
               ELSE Goto(p, IF cmd[p].autoInstall THEN "a_install" ELSE "a_summary",
                         r.fs, Append(r.evs, Ev("log", cmd[p].dir, "Scaffold files created at")),
                         step[p] + 1, stack[p])

\* createScaffold, lines 88-957: the next statement of the body; after the last
\* one the 'Scaffold files created at' line, then back in the action (line 1003)
ApplyTree(p) ==
    /\ pc[p] = "a_tree"
    /\ \E inject \in FaultChoices({"mkdir", "write"}) :
        LET tree == Statements(cmd[p])
            op == tree[step[p]]
            r == RunOp(fs, cmd[p].dir, op, inject)
        IN  /\ inject = "write" => op.op = "write"
            /\ IF ~r.ok THEN Throw(p, r.fs, r.evs, inject)
               ELSE IF step[p] < Len(tree)
               THEN Goto(p, "a_tree", r.fs, r.evs, step[p] + 1, stack[p])
               ELSE Goto(p, IF cmd[p].autoInstall THEN "a_install" ELSE "a_summary",
                         r.fs, Append(r.evs, Ev("log", cmd[p].dir, "Scaffold files created at")),
                         step[p] + 1, stack[p])

\* what npm install leaves in its working directory when it succeeds
NpmInstall(f, dir) ==
    LET a == mkdirSync(f, PathJoin(dir, <<"node_modules", ".bin">>))
        b == writeFileSync(a.fs, PathJoin(dir, <<"node_modules", ".package-lock.json">>), <<"{}">>)
        c == writeFileSync(b.fs, PathJoin(dir, <<"package-lock.json">>), <<"{}">>)
    IN  c.fs

\* autoInstall without its try/catch: a failed npm install kills the process
autoInstall_NoCatch(p) ==
    /\ pc[p] = "a_install"
    /\ \E outcome \in {"ok", "failed"} :
        LET dir == cmd[p].dir
            ran == outcome = "ok" /\ existsSync(fs, dir)
        IN  IF ran
            THEN Goto(p, "a_summary", NpmInstall(fs, dir),
                      << Ev("log", dir, "Running npm install in"), Ev("install", dir, "ok"),
                         Ev("log", dir, "npm install finished") >>, step[p], stack[p])
            ELSE Throw(p, fs, << Ev("log", dir, "Running npm install in"),
                                 Ev("install", dir, "failed") >>, "none")

\* autoInstall, lines 960-968: execSync('npm install', { cwd: dir }) in a try/catch
autoInstall(p) ==
    /\ pc[p] = "a_install"
    /\ \E outcome \in {"ok", "failed"} :
        LET dir == cmd[p].dir
            ran == outcome = "ok" /\ existsSync(fs, dir)
        IN  Goto(p, "a_summary", IF ran THEN NpmInstall(fs, dir) ELSE fs,
                 << Ev("log", dir, "Running npm install in"),
                    Ev("install", dir, IF ran THEN "ok" ELSE "failed"),
                    IF ran THEN Ev("log", dir, "npm install finished")
                           ELSE Ev("error", dir, "npm install failed") >>,
                 step[p], stack[p])

\* the apply action, line 1004, and the end of the process
ApplySummary(p) ==
    /\ pc[p] = "a_summary"
    /\ Finish(p, 0, "none", fs, <<Ev("log", <<>>, "Scaffold complete. Next steps:")>>, "none")

\* the destroy subcommand is started: line 1010
DestroyCmd(p) ==
    \E dirArg \in DestroyDirsIn(limits.inputs) :
        /\ CanStart(p)
        /\ Begin(p, [NoCmd EXCEPT !.sub = "destroy", !.dirArg = dirArg, !.dir = dirArg],
                 "d_args")

\* the destroy action without its argument check
DestroyArgs_NoCheck(p) ==
    /\ pc[p] = "d_args"
    /\ Goto(p, "d_check", fs, <<>>, step[p], stack[p])

\* the destroy action, line 1011: if (!opts.dir) { ...; process.exit(1); }
DestroyArgs(p) ==
    /\ pc[p] = "d_args"
    /\ IF cmd[p].dirArg = NoDir
       THEN Finish(p, 1, "missingArg", fs, <<Ev("error", <<>>, "specify --dir")>>, "none")
       ELSE Goto(p, "d_check", fs, <<>>, step[p], stack[p])

\* destroy without its early return: rmrf is called on the absent path
DestroyCheck_NoReturn(p) ==
    /\ pc[p] = "d_check"
    /\ Goto(p, "d_rmrf", fs,
            IF ~existsSync(fs, cmd[p].dir)
            THEN <<Ev("error", cmd[p].dir, "dir not found")>> ELSE <<>>,
            step[p], <<Frame(cmd[p].dir)>>)

\* destroy, line 971, and the call rmrf(dir) of line 981
DestroyCheck(p) ==
    /\ pc[p] = "d_check"
    /\ IF ~existsSync(fs, cmd[p].dir)
       THEN Finish(p, 0, "none", fs, <<Ev("error", cmd[p].dir, "dir not found")>>, "none")
       ELSE Goto(p, "d_rmrf", fs, <<>>, step[p], <<Frame(cmd[p].dir)>>)

Top(sk) == sk[Len(sk)]
Pop(sk) == SubSeq(sk, 1, Len(sk) - 1)
SetTop(sk, fr) == [sk EXCEPT ![Len(sk)] = fr]

\* rmrf that unlinks what cannot be listed, as rm -rf does with a file
RmrfOpen_UnlinkFile(p) ==
    /\ pc[p] = "d_rmrf"
    /\ stack[p] # <<>>
    /\ ~Top(stack[p]).open
    /\ LET fr == Top(stack[p])
           r == readdirSync(fs, fr.path)
           u == unlinkSync(fs, fr.path)
       IN  IF ~existsSync(fs, fr.path)
           THEN Goto(p, "d_rmrf", fs, <<>>, step[p], Pop(stack[p]))
           ELSE IF ~r.ok /\ ~u.ok THEN Throw(p, fs, <<>>, "none")
           ELSE IF ~r.ok
           THEN Goto(p, "d_rmrf", u.fs, <<Ev("unlink", u.path, "")>>, step[p], Pop(stack[p]))
           ELSE Goto(p, "d_rmrf", fs, <<>>, step[p],
                     SetTop(stack[p], [fr EXCEPT !.open = TRUE, !.todo = SetToSeq(r.names)]))

\* rmrf, lines 973-974: if (fs.existsSync(p)) fs.readdirSync(p)
RmrfOpen(p) ==
    /\ pc[p] = "d_rmrf"
    /\ stack[p] # <<>>
    /\ ~Top(stack[p]).open
    /\ LET fr == Top(stack[p])
           r == readdirSync(fs, fr.path)
       IN  IF ~existsSync(fs, fr.path)
           THEN Goto(p, "d_rmrf", fs, <<>>, step[p], Pop(stack[p]))
           ELSE IF ~r.ok THEN Throw(p, fs, <<>>, "none")
           ELSE Goto(p, "d_rmrf", fs, <<>>, step[p],
                     SetTop(stack[p], [fr EXCEPT !.open = TRUE, !.todo = SetToSeq(r.names)]))

\* rmrf that removes a subdirectory at once instead of descending into it
RmrfEntry_NoDescent(p) ==
    /\ pc[p] = "d_rmrf"
    /\ stack[p] # <<>>
    /\ Top(stack[p]).open
    /\ Top(stack[p]).todo # <<>>
    /\ \E inject \in FaultChoices({"unlink"}) :
        LET fr == Top(stack[p])
            cur == PathJoin(fr.path, <<Head(fr.todo)>>)
            rest == SetTop(stack[p], [fr EXCEPT !.todo = Tail(fr.todo)])
            st == lstatIsDirectory(fs, cur)
            u == unlinkSync(fs, cur)
            r == rmdirSync(fs, cur)
        IN  /\ inject = "unlink" => st.ok /\ ~st.val
            /\ IF ~st.ok THEN Throw(p, fs, <<>>, inject)
               ELSE IF st.val
                    THEN IF ~r.ok THEN Throw(p, fs, <<>>, inject)
                         ELSE Goto(p, "d_rmrf", r.fs, <<Ev("rmdir", r.path, "")>>, step[p], rest)
               ELSE IF inject = "unlink" \/ ~u.ok THEN Throw(p, fs, <<>>, inject)
               ELSE Goto(p, "d_rmrf", u.fs, <<Ev("unlink", u.path, "")>>, step[p], rest)

\* rmrf, lines 975-976: one round of the forEach
RmrfEntry(p) ==
    /\ pc[p] = "d_rmrf"
    /\ stack[p] # <<>>
    /\ Top(stack[p]).open
    /\ Top(stack[p]).todo # <<>>
    /\ \E inject \in FaultChoices({"unlink"}) :
        LET fr == Top(stack[p])
            cur == PathJoin(fr.path, <<Head(fr.todo)>>)
            rest == SetTop(stack[p], [fr EXCEPT !.todo = Tail(fr.todo)])
            st == lstatIsDirectory(fs, cur)
            u == unlinkSync(fs, cur)
        IN  /\ inject = "unlink" => st.ok /\ ~st.val
            /\ IF ~st.ok THEN Throw(p, fs, <<>>, inject)
               ELSE IF st.val THEN Goto(p, "d_rmrf", fs, <<>>, step[p], Append(rest, Frame(cur)))
               ELSE IF inject = "unlink" \/ ~u.ok THEN Throw(p, fs, <<>>, inject)
               ELSE Goto(p, "d_rmrf", u.fs, <<Ev("unlink", u.path, "")>>, step[p], rest)

\* rmrf that empties a directory and leaves the directory itself
RmrfClose_NoRmdir(p) ==
    /\ pc[p] = "d_rmrf"
    /\ stack[p] # <<>>
    /\ Top(stack[p]).open
    /\ Top(stack[p]).todo = <<>>
    /\ Goto(p, "d_rmrf", fs, <<>>, step[p], Pop(stack[p]))

\* rmrf, line 978: fs.rmdirSync(p) after the forEach
RmrfClose(p) ==
    /\ pc[p] = "d_rmrf"
    /\ stack[p] # <<>>
    /\ Top(stack[p]).open
    /\ Top(stack[p]).todo = <<>>
    /\ \E inject \in FaultChoices({"rmdir"}) :
        LET r == rmdirSync(fs, Top(stack[p]).path)
        IN  IF inject = "rmdir" \/ ~r.ok THEN Throw(p, fs, <<>>, inject)
            ELSE Goto(p, "d_rmrf", r.fs, <<Ev("rmdir", r.path, "")>>, step[p], Pop(stack[p]))

\* destroy, line 982, and the end of the process
DestroyDone(p) ==
    /\ pc[p] = "d_rmrf"
    /\ stack[p] = <<>>
    /\ Finish(p, 0, "none", fs, <<Ev("log", cmd[p].dir, "Removed")>>, "none")

----------------------------------------------------------------------------
(* Specifications *)

\* no helper has been called on its own
NoRes == [done |-> FALSE, val |-> <<>>]

InitOn(l, args) ==
    /\ fs = InitFs
    /\ pc = [p \in Procs |-> "idle"]
    /\ cmd = [p \in Procs |-> NoCmd]
    /\ step = [p \in Procs |-> 1]
    /\ stack = [p \in Procs |-> <<>>]
    /\ exit = [p \in Procs |-> NoExit]
    /\ err = [p \in Procs |-> "none"]
    /\ trace = [p \in Procs |-> <<>>]
    /\ fs0 = [p \in Procs |-> InitFs]
    /\ prev = NoPrev
    /\ started = 0
    /\ faults = 0
    /\ limits = l
    /\ sched = [turn |-> 1, switches |-> 0]
    /\ arg \in args
    /\ res = NoRes

InitWith(l) == InitOn(l, {<<>>})

\* command lines run one after the other, no injected filesystem error
Init == InitWith([race |-> FALSE, maxCmds |-> MaxCmds, maxFaults |-> 0, inputs |-> "usual"])

Next ==
    \E p \in Procs :
        \/ ApplyFlags(p)
        \/ askInteractive(p)
        \/ ApplyCheck(p)
        \/ ApplyMkdir(p)
        \/ ApplyTree(p)
        \/ autoInstall(p)
        \/ ApplySummary(p)
        \/ DestroyCmd(p)
        \/ DestroyArgs(p)
        \/ DestroyCheck(p)
        \/ RmrfOpen(p)
        \/ RmrfEntry(p)
        \/ RmrfClose(p)
        \/ DestroyDone(p)

Spec == Init /\ [][Next]_vars

\* one command line, during which filesystem calls may fail (EACCES, ENOSPC, EIO)
InitFault ==
    InitWith([race |-> FALSE, maxCmds |-> 1, maxFaults |-> MaxFaults, inputs |-> "usual"])

SpecFault == InitFault /\ [][Next]_vars

\* one command line, given any of the names, options and answers
InitConfig ==
    InitWith([race |-> FALSE, maxCmds |-> 1, maxFaults |-> 0, inputs |-> "config"])

SpecConfig == InitConfig /\ [][Next]_vars

\* two command lines started one after the other and running at the same time,
\* their steps interleaved with at most MaxSwitches preemptions
InitRace ==
    InitWith([race |-> TRUE, maxCmds |-> 2, maxFaults |-> 0, inputs |-> "race"])

SpecRace == InitRace /\ [][Next]_vars

\* no command line is run: a helper is called on its own
NoCommands == [race |-> FALSE, maxCmds |-> 0, maxFaults |-> 0, inputs |-> "usual"]

\* the strings of at most n characters of the set chars
StringsOver(chars, n) == UNION {[1..k -> chars] : k \in 0..n}

\* characters of each kind slugify tells apart: lower and upper case letters, a
\* digit, a hyphen, a blank, punctuation, a letter outside ASCII
SlugAlphabet == {"a", "B", "7", "-", " ", "!", "\"", "é"}

SlugInputs == StringsOver(SlugAlphabet, MaxNameLen) \cup Names \cup {QuotedName}

\* slugify(s), lines 22-24, called on arg
slugifyCall ==
    /\ ~res.done
    /\ res' = [done |-> TRUE, val |-> slugify(arg)]
    /\ UNCHANGED <<fs, pc, cmd, step, stack, exit, err, trace, fs0, prev, started,
                   faults, limits, sched, arg>>

InitSlugify == InitOn(NoCommands, SlugInputs)

NextSlugify == slugifyCall

SpecSlugify == InitSlugify /\ [][NextSlugify]_vars

RECURSIVE Flatten(_)
Flatten(ss) == IF ss = <<>> THEN <<>> ELSE Head(ss) \o Flatten(Tail(ss))

\* the keys of the placeholders of the templates: two that the variable maps
\* may hold, one that no map holds, one that Object.prototype holds
KeyX == <<"x">>
KeyY == <<"y", "_", "1">>
KeyAbsent == <<"q">>
KeyInherited == <<"c","o","n","s","t","r","u","c","t","o","r">>
TplKeys == {KeyX, KeyY, KeyAbsent, KeyInherited}

Lit(chars) == [key |-> <<>>, text |-> chars]
Placeholder(k) == [key |-> k, text |-> <<"{", "{">> \o k \o <<"}", "}">>]

\* the pieces templates are made of: literal text (a brace, and braces around
\* nothing, which are no placeholder) and one placeholder per key
TplPieces ==
    {Lit(<<"a">>), Lit(<<"{">>), Lit(<<"{", "{", "}", "}">>)}
        \cup {Placeholder(k) : k \in TplKeys}

\* the variable maps: empty; with string values, one of them the text of a
\* placeholder; with a null value
VarMaps ==
    { <<>>,
      [k \in {KeyX, KeyY} |->
          IF k = KeyX THEN StringValue(<<"v">>)
                      ELSE StringValue(<<"{", "{", "x", "}", "}">>)],
      [k \in {KeyX} |-> Null] }

RenderInputs ==
    { [pieces |-> ps, tpl |-> Flatten([i \in 1..Len(ps) |-> ps[i].text]), vars |-> vs] :
        ps \in StringsOver(TplPieces, MaxTplLen), vs \in VarMaps }

\* render(tpl, vars), lines 29-31, called on arg
renderCall ==
    /\ ~res.done
    /\ res' = [done |-> TRUE, val |-> render(arg.tpl, arg.vars)]
    /\ UNCHANGED <<fs, pc, cmd, step, stack, exit, err, trace, fs0, prev, started,
                   faults, limits, sched, arg>>

InitRender == InitOn(NoCommands, RenderInputs)

NextRender == renderCall

SpecRender == InitRender /\ [][NextRender]_vars

----------------------------------------------------------------------------
(* What a process has done, read off its trace *)

IsMutation(e) == e.ev \in {"mkdir", "writeFile", "unlink", "rmdir"}
Mutations(p) == SelectSeq(trace[p], IsMutation)
Installs(p) == SelectSeq(trace[p], LAMBDA e : e.ev = "install")
Ended(p) == pc[p] = "done"
IsApply(p) == cmd[p].sub = "apply"
IsDestroy(p) == cmd[p].sub = "destroy"

\* an entry (of any kind, a dangling link included) is at path p
EntryAt(f, p) == LET r == LStat(f, p) IN r.ok /\ r.exists
IsDirAt(f, p) == LET r == LStat(f, p) IN r.ok /\ r.exists /\ f[r.path].kind = "dir"

\* createScaffold has returned to the apply action
ScaffoldReturned(p) ==
    /\ IsApply(p)
    /\ pc[p] \in {"a_install", "a_summary"} \/ (Ended(p) /\ exit[p] = 0)

\* the paths strictly below d
Below(f, d) == {q \in DOMAIN f : IsPrefix(d, q) /\ q # d}

\* the content the body of createScaffold writes last at the relative path rel
FinalContent(name, rel) ==
    LET tree == Tree(name)
        last == CHOOSE i \in 1..Len(tree) :
                    /\ tree[i].rel = rel
                    /\ \A j \in (i + 1)..Len(tree) : tree[j].rel # rel
    IN  tree[last].content

\* the generated tree is on disk under dir, every entry as createScaffold wrote it
TreeOnDisk(f, dir, name) ==
    /\ IsDirAt(f, dir)
    /\ \A i \in 1..TreeLen :
        LET op == Tree(name)[i]
            q == PathJoin(dir, op.rel)
        IN  /\ q \in DOMAIN f
            /\ IF op.op = "mkdir" THEN f[q] = DirEntry
               ELSE f[q] = FileEntry(FinalContent(name, op.rel))

\* content holds a placeholder {{id}} with id among ids
HasPlaceholder(content, ids) ==
    \E i \in 1..(Len(content) - 2) :
        content[i] = "{{" /\ content[i + 1] \in ids /\ content[i + 2] = "}}"

\* the index of the first event of tr satisfying P(_), 0 if there is none
FirstIndex(tr, P(_)) ==
    IF \E i \in 1..Len(tr) : P(tr[i])
    THEN CHOOSE i \in 1..Len(tr) : P(tr[i]) /\ \A j \in 1..(i - 1) : ~P(tr[j])
    ELSE 0

----------------------------------------------------------------------------
(* Claims *)

\* C1: collision guard.  When apply is started on a target path at which an entry
\* already is (a directory, a file, a link), the process changes nothing on the
\* filesystem (no mkdir, no file write), never runs the Install Runner, and once
\* past createScaffold's first two statements it has ended with a non-zero status.
C1_CollisionGuard ==
    \A p \in Procs :
        (IsApply(p) /\ EntryAt(fs0[p], cmd[p].dir)) =>
            /\ Mutations(p) = <<>>
            /\ Installs(p) = <<>>
            /\ fs = fs0[p]
            /\ pc[p] \in {"a_check", "a_mkdir", "done"}
            /\ Ended(p) => exit[p] # 0

C1_Witness ==
    \E p \in Procs :
        /\ IsApply(p) /\ EntryAt(fs0[p], cmd[p].dir)
        /\ Ended(p) /\ err[p] = "collision" /\ exit[p] = 1

\* C2: apply run twice in succession with the same name and target directory,
\* the first run not having died of a filesystem error: the second run ends with
\* the collision error and status 1, and the filesystem (so every file and
\* directory of the first run) is as it was when the second run started.
C2_SecondApplyCollides ==
    \A p \in Procs :
        ( /\ IsApply(p)
          /\ cmd[p].prior.sub = "apply"
          /\ cmd[p].prior.err # "fsError"
          /\ cmd[p].prior.name = cmd[p].name
          /\ cmd[p].prior.dir = cmd[p].dir ) =>
            /\ fs = fs0[p]
            /\ Mutations(p) = <<>>
            /\ pc[p] \in {"a_check", "done"}
            /\ Ended(p) => (err[p] = "collision" /\ exit[p] = 1)

C2_Witness ==
    \E p \in Procs :
        /\ IsApply(p) /\ Ended(p) /\ err[p] = "collision"
        /\ cmd[p].prior.sub = "apply" /\ cmd[p].prior.exit = 0
        /\ cmd[p].prior.name = cmd[p].name /\ cmd[p].prior.dir = cmd[p].dir
        /\ TreeOnDisk(fs, cmd[p].dir, cmd[p].name)

\* C3: when createScaffold was called with the target absent and has returned (no
\* filesystem call failed), the target is a directory and every relative path of
\* the project tree (each path given to write, and the netlify directory) exists
\* under it.
C3_TreeComplete ==
    \A p \in Procs :
        (ScaffoldReturned(p) /\ ~EntryAt(fs0[p], cmd[p].dir)) =>
            /\ IsDirAt(fs, cmd[p].dir)
            /\ \A i \in 1..TreeLen :
                LET op == Tree(cmd[p].name)[i]
                    q == PathJoin(cmd[p].dir, op.rel)
                IN  /\ q \in DOMAIN fs
                    /\ fs[q].kind = (IF op.op = "write" THEN "file" ELSE "dir")

C3_Witness ==
    \E p \in Procs :
        /\ ScaffoldReturned(p) /\ ~EntryAt(fs0[p], cmd[p].dir)
        /\ Ended(p)
        /\ PathJoin(cmd[p].dir, <<"pages", "api", "stripe", "webhook.ts">>) \in DOMAIN fs
        /\ PathJoin(cmd[p].dir, <<"netlify">>) \in DOMAIN fs

\* the variables a template of the tree may name that the configuration knows:
\* the project name
KnownVars == {"app_name"}

\* C4: after a successful createScaffold no generated file holds a residual
\* placeholder {{id}} for a known variable, in any file createScaffold wrote.
C4_NoResidualPlaceholder ==
    \A p \in Procs :
        ScaffoldReturned(p) =>
            \A i \in 1..TreeLen :
                LET op == Tree(cmd[p].name)[i]
                    q == PathJoin(cmd[p].dir, op.rel)
                IN  (op.op = "write" /\ q \in DOMAIN fs)
                        => ~HasPlaceholder(fs[q].content, KnownVars)

\* C5 as claimed: everything an apply process has created or written is the
\* target directory or below it, and nothing outside the target is created,
\* changed or removed.
C5_OnlyInsideTarget ==
    \A p \in Procs :
        IsApply(p) =>
            /\ \A i \in 1..Len(trace[p]) :
                IsMutation(trace[p][i]) => IsPrefix(cmd[p].dir, trace[p][i].path)
            /\ \A q \in (DOMAIN fs \cup DOMAIN fs0[p]) :
                ~IsPrefix(cmd[p].dir, q) =>
                    (q \in DOMAIN fs /\ q \in DOMAIN fs0[p] /\ fs[q] = fs0[p][q])

\* C5 amended: everything an apply process has created or written is the target
\* directory, below it, or a directory above it that was missing and that the
\* recursive mkdir of the target made; every entry outside the target that was
\* there when the process started is unchanged, and none is removed.
C5_InsideTargetOrAncestor ==
    \A p \in Procs :
        IsApply(p) =>
            /\ \A i \in 1..Len(trace[p]) :
                LET e == trace[p][i]
                IN  IsMutation(e) =>
                        \/ IsPrefix(cmd[p].dir, e.path)
                        \/ /\ e.ev = "mkdir"
                           /\ IsPrefix(e.path, cmd[p].dir)
                           /\ e.path \notin DOMAIN fs0[p]
            /\ \A q \in DOMAIN fs0[p] : q \in DOMAIN fs /\ (~IsPrefix(cmd[p].dir, q) => fs[q] = fs0[p][q])
            /\ \A q \in DOMAIN fs \ DOMAIN fs0[p] :
                \/ IsPrefix(cmd[p].dir, q)
                \/ IsPrefix(q, cmd[p].dir) /\ fs[q] = DirEntry

C5_Witness ==
    \E p \in Procs :
        /\ IsApply(p) /\ Ended(p) /\ exit[p] = 0
        /\ cmd[p].dir = <<"a", "b">>
        /\ <<"a">> \notin DOMAIN fs0[p]
        /\ fs[<<"a">>] = DirEntry
        /\ TreeOnDisk(fs, cmd[p].dir, cmd[p].name)

\* C6: destroy called on a directory (with whatever files, links and nested
\* directories below it) and returned: the directory and everything below it
\* are gone.
C6_DestroyRemovesAll ==
    \A p \in Procs :
        (IsDestroy(p) /\ IsDirAt(fs0[p], cmd[p].dir) /\ Ended(p) /\ exit[p] = 0) =>
            \A q \in DOMAIN fs : ~IsPrefix(cmd[p].dir, q)

C6_Witness ==
    \E p \in Procs :
        /\ IsDestroy(p) /\ Ended(p) /\ exit[p] = 0
        /\ cmd[p].prior.sub = "apply" /\ cmd[p].prior.exit = 0
        /\ cmd[p].dir = cmd[p].prior.dir
        /\ PathJoin(cmd[p].dir, <<"node_modules", ".bin">>) \in DOMAIN fs0[p]
        /\ PathJoin(cmd[p].dir, <<"pages", "api", "stripe", "webhook.ts">>) \in DOMAIN fs0[p]
        /\ \A q \in DOMAIN fs : ~IsPrefix(cmd[p].dir, q)

\* C7: destroy on a path that does not exist, or called again on the path of a
\* destroy that has just returned, changes nothing on the filesystem and, past
\* its check, has ended with status 0 having only logged 'dir not found'.
C7_DestroyAbsentNoop ==
    \A p \in Procs :
        ( /\ IsDestroy(p)
          /\ cmd[p].dirArg # NoDir
          /\ \/ ~existsSync(fs0[p], cmd[p].dir)
             \/ /\ cmd[p].prior.sub = "destroy"
                /\ cmd[p].prior.dir = cmd[p].dir
                /\ cmd[p].prior.exit = 0 ) =>
            /\ fs = fs0[p]
            /\ Mutations(p) = <<>>
            /\ pc[p] \in {"d_args", "d_check", "done"}
            /\ Ended(p) => /\ exit[p] = 0
                           /\ err[p] = "none"
                           /\ trace[p] = <<Ev("error", cmd[p].dir, "dir not found")>>

C7_Witness ==
    \E p \in Procs :
        /\ IsDestroy(p) /\ Ended(p) /\ exit[p] = 0
        /\ cmd[p].prior.sub = "destroy" /\ cmd[p].prior.dir = cmd[p].dir
        /\ cmd[p].prior.exit = 0
        /\ cmd[p].dir = <<"old">>
        /\ trace[p] = <<Ev("error", cmd[p].dir, "dir not found")>>

IsInstall(e) == e.ev = "install"
IsSummary(e) == e.ev = "log" /\ e.msg = "Scaffold complete. Next steps:"
IsCreatedLine(e) == e.ev = "log" /\ e.msg = "Scaffold files created at"
WriteOps(name) == {i \in 1..TreeLen : Tree(name)[i].op = "write"}

\* C8: when npm install fails during an apply with autoInstall, the failure is
\* caught and logged, the generated tree stays on disk as createScaffold wrote
\* it, and the process goes on to the closing summary and ends with status 0.
C8_InstallFailureRecovered ==
    \A p \in Procs :
        \A i \in 1..Len(trace[p]) :
            (IsApply(p) /\ trace[p][i] = Ev("install", cmd[p].dir, "failed")) =>
                /\ cmd[p].autoInstall
                /\ Len(trace[p]) > i
                /\ trace[p][i + 1] = Ev("error", cmd[p].dir, "npm install failed")
                /\ TreeOnDisk(fs, cmd[p].dir, cmd[p].name)
                /\ pc[p] \in {"a_summary", "done"}
                /\ Ended(p) => /\ exit[p] = 0
                               /\ IsSummary(trace[p][Len(trace[p])])

C8_Witness ==
    \E p \in Procs :
        /\ IsApply(p) /\ Ended(p) /\ exit[p] = 0
        /\ \E i \in 1..Len(trace[p]) : trace[p][i] = Ev("install", cmd[p].dir, "failed")
        /\ IsSummary(trace[p][Len(trace[p])])
        /\ TreeOnDisk(fs, cmd[p].dir, cmd[p].name)

\* C9 as claimed: the summary with the next manual steps is emitted before the
\* Install Runner is invoked.
C9_SummaryBeforeInstall ==
    \A p \in Procs :
        \A i \in 1..Len(trace[p]) :
            (IsApply(p) /\ IsInstall(trace[p][i])) =>
                \E j \in 1..(i - 1) : IsSummary(trace[p][j])

\* C9 amended: on an apply with autoInstall the target directory is created,
\* then all tree entries are written, then the line 'Scaffold files created at'
\* is emitted, then the Install Runner is invoked, and the summary with the next
\* manual steps is emitted only after the Install Runner has returned.
C9_ApplyOrder ==
    \A p \in Procs :
        IsApply(p) =>
            /\ \A i \in 1..Len(trace[p]) :
                IsInstall(trace[p][i]) =>
                    LET tr == trace[p]
                        d == FirstIndex(tr, LAMBDA e : e = Ev("mkdir", cmd[p].dir, ""))
                        c == FirstIndex(tr, IsCreatedLine)
                        w == {j \in 1..Len(tr) : tr[j].ev = "writeFile"}
                    IN  /\ 0 < d /\ d < c /\ c < i
                        /\ \A j \in w : d < j /\ j < c
                        /\ Cardinality(w) = Cardinality(WriteOps(cmd[p].name))
                        /\ \A j \in 1..Len(tr) : IsMutation(tr[j]) => j < c
                        /\ \A j \in 1..Len(tr) : IsSummary(tr[j]) => i < j
            /\ (Ended(p) /\ exit[p] = 0) =>
                /\ IsSummary(trace[p][Len(trace[p])])
                /\ Len(Installs(p)) = (IF cmd[p].autoInstall THEN 1 ELSE 0)

C9_Witness ==
    \E p \in Procs :
        /\ IsApply(p) /\ Ended(p) /\ exit[p] = 0 /\ cmd[p].autoInstall
        /\ Len(Installs(p)) = 1
        /\ FirstIndex(trace[p], IsInstall) < FirstIndex(trace[p], IsSummary)
        /\ FirstIndex(trace[p], IsCreatedLine) < FirstIndex(trace[p], IsInstall)

\* C10: destroy without --dir reports the missing argument, ends with a non-zero
\* status and changes nothing on the filesystem: destroy() is never entered.
C10_DestroyMissingArg ==
    \A p \in Procs :
        (IsDestroy(p) /\ cmd[p].dirArg = NoDir) =>
            /\ fs = fs0[p]
            /\ Mutations(p) = <<>>
            /\ pc[p] \in {"d_args", "done"}
            /\ Ended(p) => /\ exit[p] # 0
                           /\ err[p] = "missingArg"
                           /\ trace[p] = <<Ev("error", <<>>, "specify --dir")>>

C10_Witness ==
    \E p \in Procs :
        /\ IsDestroy(p) /\ cmd[p].dirArg = NoDir
        /\ Ended(p) /\ exit[p] = 1
        /\ trace[p] = <<Ev("error", <<>>, "specify --dir")>>

\* an event that removes an entry
IsRemoval(e) == e.ev \in {"unlink", "rmdir"}

\* C11: destroy deletes bottom-up.  A directory is removed (rmdir) only after
\* every entry that was below it when destroy started, files and nested
\* directories alike, has been removed; the target directory itself is the last
\* entry removed; and a destroy of a directory has not ended until that is done.
C11_BottomUp ==
    \A p \in Procs :
        IsDestroy(p) =>
            LET tr == trace[p] IN
            /\ \A i \in 1..Len(tr) :
                  tr[i].ev = "rmdir" =>
                      \A q \in Below(fs0[p], tr[i].path) :
                          \E j \in 1..(i - 1) : IsRemoval(tr[j]) /\ tr[j].path = q
            /\ \A i \in 1..Len(tr) :
                  (IsRemoval(tr[i]) /\ tr[i].path = cmd[p].dir) =>
                      /\ tr[i].ev = "rmdir"
                      /\ \A j \in (i + 1)..Len(tr) : ~IsMutation(tr[j])
            /\ (IsDirAt(fs0[p], cmd[p].dir) /\ Ended(p)) =>
                  /\ exit[p] = 0
                  /\ Mutations(p) # <<>>
                  /\ Mutations(p)[Len(Mutations(p))] = Ev("rmdir", cmd[p].dir, "")

\* a destroy of old/ has returned: old/sub/deep, old/sub and old were removed in
\* that order, each after the files below it
C11_Witness ==
    \E p \in Procs :
        /\ IsDestroy(p) /\ Ended(p) /\ exit[p] = 0
        /\ cmd[p].dir = <<"old">>
        /\ <<"old", "sub", "deep">> \in DOMAIN fs0[p]
        /\ LET at(q) == FirstIndex(trace[p], LAMBDA e : IsRemoval(e) /\ e.path = q)
           IN  /\ 0 < at(<<"old", "sub", "b.txt">>)
               /\ at(<<"old", "sub", "b.txt">>) < at(<<"old", "sub">>)
               /\ at(<<"old", "sub", "deep">>) < at(<<"old", "sub">>)
               /\ at(<<"old", "sub">>) < at(<<"old">>)
               /\ at(<<"old", "a.txt">>) < at(<<"old">>)

\* the links that are inside the tree of the directory d
LinksInside(f, d) == {l \in Below(f, d) : f[l].kind = "link"}

\* C12: destroy does not follow a link out of the target tree.  When the target
\* is a directory with a link somewhere below it (a link to a directory outside
\* the tree included), the only thing done to the link is to unlink it, a
\* destroy that has returned has unlinked it, nothing is removed or written
\* outside the tree, and every entry outside the tree (the link's target and
\* what it holds) is as it was.
C12_LinkNotFollowed ==
    \A p \in Procs :
        ( /\ IsDestroy(p)
          /\ IsDirAt(fs0[p], cmd[p].dir)
          /\ LinksInside(fs0[p], cmd[p].dir) # {} ) =>
            /\ \A l \in LinksInside(fs0[p], cmd[p].dir) :
                  /\ \A i \in 1..Len(trace[p]) :
                        (IsMutation(trace[p][i]) /\ trace[p][i].path = l) =>
                            trace[p][i].ev = "unlink"
                  /\ (Ended(p) /\ exit[p] = 0) =>
                        \E i \in 1..Len(trace[p]) : trace[p][i] = Ev("unlink", l, "")
            /\ \A i \in 1..Len(trace[p]) :
                  IsMutation(trace[p][i]) => IsPrefix(cmd[p].dir, trace[p][i].path)
            /\ \A q \in DOMAIN fs0[p] :
                  ~IsPrefix(cmd[p].dir, q) => (q \in DOMAIN fs /\ fs[q] = fs0[p][q])

\* destroy of old/ has returned: the link old/ln is gone, the directory ext it
\* pointed at and the file in it are still there
C12_Witness ==
    \E p \in Procs :
        /\ IsDestroy(p) /\ Ended(p) /\ exit[p] = 0
        /\ cmd[p].dir = <<"old">>
        /\ fs0[p][<<"old", "ln">>] = LinkEntry(<<"ext">>)
        /\ <<"old", "ln">> \notin DOMAIN fs
        /\ <<"ext">> \in DOMAIN fs
        /\ fs[<<"ext", "keep.txt">>] = fs0[p][<<"ext", "keep.txt">>]

\* the characters of s at the positions i..Len(s), where a character of
\* [a-z0-9] is kept and, unless it is the first one kept, is preceded by one
\* hyphen when the character before it was not kept
RECURSIVE JoinRuns(_, _, _)
JoinRuns(s, i, seen) ==
    IF i > Len(s) THEN <<>>
    ELSE IF ~IsSlugChar(s[i]) THEN JoinRuns(s, i + 1, seen)
    ELSE (IF seen /\ ~IsSlugChar(s[i - 1]) THEN <<"-", s[i]>> ELSE <<s[i]>>)
         \o JoinRuns(s, i + 1, TRUE)

\* C13: slugify(s) is s in lower case with each maximal run of characters
\* outside [a-z0-9] replaced by one hyphen and a leading and a trailing hyphen
\* removed: the result holds only characters of [a-z0-9-], no two hyphens next
\* to each other, no hyphen at its start or its end, and "My App!" gives
\* "my-app".
C13_Slugify ==
    res.done =>
        LET r == res.val IN
        /\ r = JoinRuns(ToLowerCase(arg), 1, FALSE)
        /\ \A i \in 1..Len(r) : IsSlugChar(r[i]) \/ r[i] = "-"
        /\ \A i \in 1..(Len(r) - 1) : ~(r[i] = "-" /\ r[i + 1] = "-")
        /\ r # <<>> => (r[1] # "-" /\ r[Len(r)] # "-")
        /\ arg = <<"M","y"," ","A","p","p","!">> => r = <<"m","y","-","a","p","p">>

\* slugify was called on "My App!" and returned "my-app"
C13_Witness ==
    /\ res.done
    /\ arg = <<"M","y"," ","A","p","p","!">>
    /\ res.val = <<"m","y","-","a","p","p">>

\* the characters of a JSON string body with its escapes undone; ok is FALSE
\* where the body is not well formed (a bare quote, a backslash at the end)
RECURSIVE JsonUnescape(_)
JsonUnescape(s) ==
    IF s = <<>> THEN [ok |-> TRUE, val |-> <<>>]
    ELSE IF Head(s) = "\"" THEN [ok |-> FALSE, val |-> <<>>]
    ELSE IF Head(s) = "\\"
         THEN IF Len(s) < 2 \/ s[2] \notin {"\"", "\\", "/"}
              THEN [ok |-> FALSE, val |-> <<>>]
              ELSE LET r == JsonUnescape(Tail(Tail(s)))
                   IN  [ok |-> r.ok, val |-> <<s[2]>> \o r.val]
    ELSE LET r == JsonUnescape(Tail(s))
         IN  [ok |-> r.ok, val |-> <<Head(s)>> \o r.val]

\* JSON.parse of the text of a JSON string
JsonParseString(s) ==
    IF Len(s) < 2 \/ Head(s) # "\"" \/ s[Len(s)] # "\""
    THEN [ok |-> FALSE, val |-> <<>>]
    ELSE JsonUnescape(SubSeq(s, 2, Len(s) - 1))

\* createScaffold's first statement, the write of package.json, is done
PackageJsonWritten(p) ==
    /\ IsApply(p)
    /\ \/ pc[p] = "a_tree" /\ step[p] > 1
       \/ pc[p] \in {"a_install", "a_summary"}
       \/ Ended(p) /\ err[p] = "none"

\* C14: apply with a name N and no directory.  The target directory is
\* slugify(N) in the current working directory (onboardkit for "onboardkit",
\* my-app for "My App!"), and once createScaffold's first statement is done
\* package.json is a file of that directory whose "name" member is the JSON
\* string of N as given, not of the slug: parsed, it is N character for character.
C14_PackageName ==
    \A p \in Procs :
        (IsApply(p) /\ cmd[p].dirArg = NoDir) =>
            LET N == cmd[p].name
                q == cmd[p].dir \o <<"package.json">>
            IN  /\ slugify(N) # <<>> => cmd[p].dir = <<Str(slugify(N))>>
                /\ N = <<"o","n","b","o","a","r","d","k","i","t">> =>
                       cmd[p].dir = <<"onboardkit">>
                /\ N = <<"M","y"," ","A","p","p","!">> => cmd[p].dir = <<"my-app">>
                /\ PackageJsonWritten(p) =>
                      /\ q \in DOMAIN fs
                      /\ fs[q].kind = "file"
                      /\ fs[q].content[1] = "{\n  \"name\": "
                      /\ fs[q].content[2] = Str(JsonQuote(N))
                      /\ JsonParseString(JsonQuote(N)) = [ok |-> TRUE, val |-> N]
                      /\ N = <<"o","n","b","o","a","r","d","k","i","t">> =>
                             fs[q].content[2] = "\"onboardkit\""

\* apply --name onboardkit has ended well and ./onboardkit/package.json names
\* the package "onboardkit"
C14_Witness ==
    \E p \in Procs :
        /\ IsApply(p) /\ Ended(p) /\ exit[p] = 0
        /\ cmd[p].dirArg = NoDir
        /\ cmd[p].name = <<"o","n","b","o","a","r","d","k","i","t">>
        /\ <<"onboardkit", "package.json">> \in DOMAIN fs
        /\ fs[<<"onboardkit", "package.json">>].content[2] = "\"onboardkit\""

\* k is a key of vars whose value is a string
Present(vmap, k) == k \in DOMAIN vmap /\ vmap[k].t = "string"

\* the output piece by piece: literal text as it is, the placeholder of a
\* present key as the key's value, any other placeholder as whatever(k)
Pieced(ps, vmap, whatever(_)) ==
    Flatten([i \in 1..Len(ps) |->
                IF ps[i].key = <<>> THEN ps[i].text
                ELSE IF Present(vmap, ps[i].key) THEN vmap[ps[i].key].s
                ELSE whatever(ps[i].key)])

\* C15: render(tpl, vars) replaces each occurrence of {{k}} whose key k is in
\* vars by vars[k], once, in a single pass from left to right (a substituted
\* value is not scanned again), and carries the text outside placeholders over
\* unchanged and in order.
C15_RenderSubstitutes ==
    res.done =>
        res.val = Pieced(arg.pieces, arg.vars, LAMBDA k : Replacement(arg.vars, k))

\* render returned for a template with literal text between two placeholders,
\* the value of the first being itself the text of a placeholder
C15_Witness ==
    /\ res.done
    /\ arg.pieces = <<Placeholder(KeyY), Lit(<<"a">>), Placeholder(KeyX)>>
    /\ Present(arg.vars, KeyX) /\ Present(arg.vars, KeyY)
    /\ res.val = <<"{", "{", "x", "}", "}", "a", "v">>

\* C16: for a key k (letters, digits, underscore) that vars does not hold, or
\* holds with a null or undefined value, render replaces every {{k}} by the
\* empty string: such a placeholder is never left in the output and nothing
\* else is put in its place.
C16_RenderAbsentEmpty ==
    res.done => res.val = Pieced(arg.pieces, arg.vars, LAMBDA k : <<>>)

\* the paths of the files the statements 1..n of createScaffold's body write,
\* in the order of the statements
WrittenBy(name, dir, n) ==
    LET ops == SelectSeq(SubSeq(Tree(name), 1, n), LAMBDA op : op.op = "write")
    IN  [i \in 1..Len(ops) |-> PathJoin(dir, ops[i].rel)]

\* the paths of the files p has written, in order
FilesWritten(p) ==
    LET evs == SelectSeq(trace[p], LAMBDA e : e.ev = "writeFile")
    IN  [i \in 1..Len(evs) |-> evs[i].path]

\* p is in the body of createScaffold, or has died in it of a filesystem error
InBody(p) ==
    /\ IsApply(p)
    /\ \/ pc[p] = "a_tree"
       \/ /\ Ended(p) /\ err[p] = "fsError"
          /\ \E i \in 1..Len(trace[p]) : trace[p][i] = Ev("mkdir", cmd[p].dir, "")

\* C17: a filesystem error at the k-th statement of createScaffold's body ends
\* createScaffold there.  The statements before k have all been run and what
\* they wrote stays on disk as written (nothing is rolled back), no entry of a
\* statement after k is written, the Install Runner is not run, the closing
\* lines are not logged, and the process ends with a failure status.
C17_AbortAtFailure ==
    \A p \in Procs :
        InBody(p) =>
            LET k == step[p]
                name == cmd[p].name
                dir == cmd[p].dir
                tree == Tree(name)
                earlier(rel) == {j \in 1..(k - 1) : tree[j].rel = rel}
            IN  /\ FilesWritten(p) = WrittenBy(name, dir, k - 1)
                /\ \A i \in 1..(k - 1) :
                      LET op == tree[i]
                          q == PathJoin(dir, op.rel)
                          last == CHOOSE j \in earlier(op.rel) :
                                      \A j2 \in earlier(op.rel) : j2 <= j
                      IN  /\ q \in DOMAIN fs
                          /\ IF op.op = "mkdir" THEN fs[q] = DirEntry
                             ELSE fs[q] = FileEntry(tree[last].content)
                /\ \A i \in k..Len(tree) :
                      earlier(tree[i].rel) = {} =>
                          PathJoin(dir, tree[i].rel) \notin DOMAIN fs
                /\ Installs(p) = <<>>
                /\ \A i \in 1..Len(trace[p]) :
                      ~IsSummary(trace[p][i]) /\ ~IsCreatedLine(trace[p][i])
                /\ Ended(p) => exit[p] = 1

\* an apply with autoInstall has died at the tenth statement of the body: nine
\* files are on disk, the tenth is not, and nothing was installed
C17_Witness ==
    \E p \in Procs :
        /\ InBody(p) /\ Ended(p) /\ exit[p] = 1
        /\ cmd[p].autoInstall
        /\ step[p] = 10
        /\ Len(FilesWritten(p)) = 9
        /\ PathJoin(cmd[p].dir, <<"lib", "supabaseClient.ts">>) \in DOMAIN fs
        /\ PathJoin(cmd[p].dir, <<"lib", "safeClerk.tsx">>) \notin DOMAIN fs
        /\ Installs(p) = <<>>

\* the apply action is past its line 1003
PastInstallLine(p) ==
    IsApply(p) /\ (pc[p] = "a_summary" \/ (Ended(p) /\ exit[p] = 0))

\* C18: the Install Runner runs during an apply exactly when autoInstall is
\* true (install is on unless --no-install is given or the prompt is answered
\* no).  It never runs when the flag is false; once createScaffold has returned
\* and the action is past the call, it has run once if the flag is true and not
\* at all otherwise; it runs at most once, in the target directory, and only
\* after every file of the tree has been written.
C18_InstallIffFlag ==
    \A p \in Procs :
        IsApply(p) =>
            /\ Len(Installs(p)) <= 1
            /\ ~cmd[p].autoInstall => Installs(p) = <<>>
            /\ PastInstallLine(p) => (Len(Installs(p)) = 1 <=> cmd[p].autoInstall)
            /\ \A i \in 1..Len(trace[p]) :
                  IsInstall(trace[p][i]) =>
                      /\ trace[p][i].path = cmd[p].dir
                      /\ FilesWritten(p) = WrittenBy(cmd[p].name, cmd[p].dir, TreeLen)
                      /\ \A j \in 1..Len(trace[p]) : trace[p][j].ev = "writeFile" => j < i

\* an apply with autoInstall has ended well: the Install Runner ran once, in the
\* target directory, after the last file of the tree was written
C18_Witness ==
    \E p \in Procs :
        /\ PastInstallLine(p) /\ Ended(p)
        /\ cmd[p].autoInstall
        /\ Len(Installs(p)) = 1
        /\ Installs(p)[1].path = cmd[p].dir
        /\ FilesWritten(p) = WrittenBy(cmd[p].name, cmd[p].dir, TreeLen)
        /\ FirstIndex(trace[p], LAMBDA e : e.ev = "writeFile") < FirstIndex(trace[p], IsInstall)

\* p's existence check found nothing at the target path: p is past the guard
PassedGuard(p) ==
    /\ IsApply(p)
    /\ pc[p] \notin {"idle", "a_check"}
    /\ \A i \in 1..Len(trace[p]) : trace[p][i].msg # "Directory already exists:"

\* the number of statements of createScaffold's body p has run
BodyDone(p) ==
    IF pc[p] = "a_mkdir" THEN 0 ELSE IF pc[p] = "a_tree" THEN step[p] - 1 ELSE TreeLen

\* C19: the collision guard is the existence check alone and is not atomic with
\* the creation of the directory.  When two applies on the same absent path have
\* both made the check before either made the directory, both are past the
\* guard, neither ends with the collision error or any other failure, and both
\* write their entries, every one of them in turn, into the same directory.
C19_GuardNotAtomic ==
    \A p, q \in Procs :
        ( /\ p # q
          /\ cmd[p].dir = cmd[q].dir
          /\ PassedGuard(p) /\ PassedGuard(q) ) =>
            /\ err[p] = "none"
            /\ Ended(p) => exit[p] = 0
            /\ FilesWritten(p) = WrittenBy(cmd[p].name, cmd[p].dir, BodyDone(p))
            /\ \A i \in 1..Len(trace[p]) :
                  IsMutation(trace[p][i]) =>
                      IsPrefix(Parent(cmd[p].dir), trace[p][i].path)

\* two applies on a/b have both ended well, each having written all the files:
\* the second made its check before the first had made the directory, which is
\* in the trace of one of them only
C19_Witness ==
    \E p, q \in Procs :
        /\ p # q
        /\ cmd[p].dir = <<"a", "b">> /\ cmd[q].dir = <<"a", "b">>
        /\ PassedGuard(p) /\ PassedGuard(q)
        /\ Ended(p) /\ Ended(q) /\ exit[p] = 0 /\ exit[q] = 0
        /\ Len(FilesWritten(p)) = Cardinality(WriteOps(cmd[p].name))
        /\ Len(FilesWritten(q)) = Cardinality(WriteOps(cmd[q].name))
        /\ \E i \in 1..Len(trace[p]) : trace[p][i] = Ev("mkdir", <<"a", "b">>, "")
        /\ \A i \in 1..Len(trace[q]) : trace[q][i] # Ev("mkdir", <<"a", "b">>, "")

\* what createScaffold leaves below dir: the relative paths with their entries
Generated(f, dir) ==
    [rel \in {SubSeq(q, Len(dir) + 1, Len(q)) : q \in Below(f, dir)} |-> f[dir \o rel]]

\* the tree of a name: for each statement its path with what is written there
\* last, and the directories above it
TreeOf(name) ==
    LET tree == Tree(name)
        rels == {tree[i].rel : i \in 1..Len(tree)}
        dirs == UNION {{SubSeq(r, 1, n) : n \in 1..(Len(r) - 1)} : r \in rels} \ rels
        isFile(r) == \E i \in 1..Len(tree) : tree[i].rel = r /\ tree[i].op = "write"
    IN  [r \in rels \cup dirs |->
            IF r \in rels /\ isFile(r) THEN FileEntry(FinalContent(name, r)) ELSE DirEntry]

\* C20: the generated tree depends on no field of the configuration but the
\* name.  Whatever stripe, auth, db, deploy, repo and autoInstall are, when
\* createScaffold has returned (and before npm install adds to the directory)
\* the relative paths below the target and their contents are those of the tree
\* of the name; the Stripe routes are among them also when the billing answer
\* is no.
C20_OnlyNameMatters ==
    \A p \in Procs :
        (IsApply(p) /\ pc[p] \in {"a_install", "a_summary"} /\ Installs(p) = <<>>) =>
            /\ Generated(fs, cmd[p].dir) = TreeOf(cmd[p].name)
            /\ <<"pages", "api", "stripe", "webhook.ts">> \in DOMAIN Generated(fs, cmd[p].dir)
            /\ <<"pages", "api", "stripe", "create-checkout.ts">>
                  \in DOMAIN Generated(fs, cmd[p].dir)

\* createScaffold has returned for answers with billing off, a repository given
\* and no install: the Stripe webhook route is on disk
C20_Witness ==
    \E p \in Procs :
        /\ IsApply(p) /\ pc[p] = "a_summary"
        /\ ~cmd[p].stripe /\ cmd[p].repo # "" /\ ~cmd[p].autoInstall
        /\ PathJoin(cmd[p].dir, <<"pages", "api", "stripe", "webhook.ts">>) \in DOMAIN fs
        /\ Generated(fs, cmd[p].dir) = TreeOf(cmd[p].name)

\* a regular file is at the path p
IsFileAt(f, p) == p \in DOMAIN f /\ f[p].kind = "file"

\* C21: destroy on a path at which a regular file is.  The existence test
\* passes, the listing of the path as a directory (readdirSync, before any
\* entry is visited) throws, and the process dies of it with a failure status:
\* nothing is removed, the file is still there as it was, and the 'Removed'
\* line is not logged.
C21_DestroyOnFile ==
    \A p \in Procs :
        (IsDestroy(p) /\ IsFileAt(fs0[p], cmd[p].dir)) =>
            /\ Mutations(p) = <<>>
            /\ fs = fs0[p]
            /\ IsFileAt(fs, cmd[p].dir)
            /\ \A i \in 1..Len(trace[p]) : trace[p][i].msg # "Removed"
            /\ pc[p] \in {"d_args", "d_check", "d_rmrf", "done"}
            /\ pc[p] = "d_rmrf" => stack[p] = <<Frame(cmd[p].dir)>>
            /\ Ended(p) => (exit[p] = 1 /\ err[p] = "fsError" /\ trace[p] = <<>>)

\* destroy of notes.txt, a file, has died: the file is still there
C21_Witness ==
    \E p \in Procs :
        /\ IsDestroy(p) /\ Ended(p)
        /\ cmd[p].dir = <<"notes.txt">>
        /\ IsFileAt(fs0[p], <<"notes.txt">>)
        /\ exit[p] = 1 /\ err[p] = "fsError"
        /\ IsFileAt(fs, <<"notes.txt">>)

\* no character of the name is an ASCII letter or digit
NoAsciiAlnum(name) ==
    \A i \in 1..Len(name) :
        ~IsSlugChar(name[i]) /\ ~(\E j \in 1..26 : UpperChars[j] = name[i])

====
